---- MODULE Spec2Model ----
(***************************************************************************)
(* State-machine model of PySubtitle/SubtitleProject.py (gpt-subtrans):    *)
(* the SubtitleProject object, its project-file writer, the background     *)
(* autosave loop and the translation orchestrator with its event handlers. *)
(*                                                                         *)
(* Two threads exist: "fg", the caller's thread, which runs the public     *)
(* methods and (synchronously) the translator and its callbacks, and "bg", *)
(* the thread created by _start_autosave_thread.                           *)
(*                                                                         *)
(* Spec is the object in use: writes, autosave, translation runs.          *)
(* SpecInitialise is the start of a run as gpt-subtrans.py makes it: the   *)
(* constructor for every value of options['project'], InitialiseProject    *)
(* with ReadProjectFile and WriteBackupFile, then UpdateProjectSettings.   *)
(* SpecLock is that start of a run with the autosave thread running and   *)
(* weak fairness of the steps of each thread: the run the lock protects.   *)
(***************************************************************************)
EXTENDS Integers, Sequences, FiniteSets, TLC

\* ------------------------------------------------------------------ bounds
MaxVer == 1        \* translator mutations (translated batches) of the content
MaxHandlers == 1   \* subscriptions of one handler a Translate* call may start from

\* --------------------------------------------------------------- constants
\* Python's None, as a value comparable with content objects and paths.
None == [type |-> "NoneType"]
\* self.lock when no thread holds it; self.stop_event before the thread starts.
Unlocked == "unlocked"
NoEvent == "None"
Threads == {"fg", "bg"}
\* A path is what os.path.splitext makes of it: (root, extension).
Path(root, ext) == [root |-> root, ext |-> ext]
ProjectPath == Path("P", ".subtrans")
BackupPath == Path("P", ".subtrans-backup")
Paths == {ProjectPath, BackupPath}
EventNames == {"preprocessed", "batch_translated", "scene_translated"}

\* The option values the script passes as options['project'].
Modes == {"", "write", "reparse"}

\* A Python str, as the sequence of its characters.
Str(chars) == [type |-> "str", chars |-> chars]
\* project_mode when options['project'] is None.
NoMode == "None"
\* Every string that is in none of the lists of lines 31-39.
Unlisted == "unlisted"

VARIABLES
    autosave,         \* options.get('autosave')
    option,           \* options.get('project', ''), as the caller gave it
    project_mode,     \* the local project_mode of __init__ after line 29
    preview, resume, reparse, retranslate,   \* self.preview ... (lines 36-39)
    icall,            \* the InitialiseProject call: arguments, locals, outcome
    ucall,            \* the UpdateProjectSettings call: argument, writes, outcome
    settings,         \* self.subtitles.settings
    subtitles,        \* self.subtitles
    projectfile,      \* self.projectfile
    needsupdate,      \* self.needsupdate
    lock,             \* self.lock: the thread holding it, or Unlocked
    stop_event,       \* self.stop_event: NoEvent, "clear" or "set"
    read_project, write_project, update_project, load_subtitles,
    disk,             \* the files at Paths
    output,           \* the translated output file written by SaveTranslation
    handlers,         \* translator.events: how often each handler is subscribed
    op, pc,           \* the foreground thread: method being run, position in it
    call,             \* the Translate* call in progress: its inputs, its failure
    ev, pending, hpc, hsave,   \* event being dispatched, handler position
    wpc, wbuf, wpath, wres,    \* per thread: position in WriteProjectFile
    bpc               \* the autosave thread's position

projvars == <<subtitles, projectfile, needsupdate, lock, stop_event,
              read_project, write_project, update_project, load_subtitles>>
optvars == <<autosave, option, project_mode, preview, resume, reparse, retranslate>>
callvars == <<icall, ucall, settings>>
flagvars == <<read_project, write_project, update_project, load_subtitles>>
fgvars == <<op, pc, call, ev, pending, hpc, hsave>>
wvars == <<wpc, wbuf, wpath, wres>>
vars == <<optvars, callvars, projvars, disk, output, handlers, fgvars, wvars, bpc>>

\* ------------------------------------------------------------ content, files
\* A SubtitleFile object: whether its scene list is empty (scenes = 0) or not
\* (scenes = 1), which is all the project asks of the list, and how many
\* translated batches it holds.  An object of another type is truthy or falsy
\* as Python decides.
SubtitleFile(n, v) == [type |-> "SubtitleFile", scenes |-> n, ver |-> v]
WrongType(b) == [type |-> "other", truthy |-> b]

\* `not self.subtitles`
Truthy(s) == s # None /\ (s.type = "other" => s.truthy)

isinstance_SubtitleFile(s) == s # None /\ s.type = "SubtitleFile"

NoFile == [exists |-> FALSE, data |-> <<>>]
Truncated == [exists |-> TRUE, data |-> <<>>]

\* json.dumps(self.subtitles, cls=SubtitleEncoder) walks the object graph; the
\* text it produces reaches the file in two buffer flushes.  A chunk records the
\* content version it encodes and the writer it came from.
Chunk(t, v) == [by |-> t, ver |-> v]
Encoding(t, buf) == [i \in 1..Len(buf) |-> Chunk(t, buf[i])]
IsComplete(f) == f.exists /\ Len(f.data) = 2 /\ f.data[1].by = f.data[2].by

\* ---------------------------------------------------------------- __init__
\* The mode words of the lists of lines 31-39, and how each is spelt.
ModeWords == {"", "true", "write", "read", "reload", "resume", "retranslate",
              "reparse", "preview"}

Letters(w) ==
    CASE w = "" -> <<>>
      [] w = "true" -> <<"t", "r", "u", "e">>
      [] w = "write" -> <<"w", "r", "i", "t", "e">>
      [] w = "read" -> <<"r", "e", "a", "d">>
      [] w = "reload" -> <<"r", "e", "l", "o", "a", "d">>
      [] w = "resume" -> <<"r", "e", "s", "u", "m", "e">>
      [] w = "retranslate" -> <<"r", "e", "t", "r", "a", "n", "s", "l", "a", "t", "e">>
      [] w = "reparse" -> <<"r", "e", "p", "a", "r", "s", "e">>
      [] w = "preview" -> <<"p", "r", "e", "v", "i", "e", "w">>

\* str.lower(): each upper-case letter becomes its lower-case letter, every
\* other character stays.
Lowercase ==
    [A |-> "a", B |-> "b", C |-> "c", D |-> "d", E |-> "e", F |-> "f", G |-> "g",
     H |-> "h", I |-> "i", J |-> "j", K |-> "k", L |-> "l", M |-> "m", N |-> "n",
     O |-> "o", P |-> "p", Q |-> "q", R |-> "r", S |-> "s", T |-> "t", U |-> "u",
     V |-> "v", W |-> "w", X |-> "x", Y |-> "y", Z |-> "z"]

lower(chars) ==
    [i \in DOMAIN chars |->
        IF chars[i] \in DOMAIN Lowercase THEN Lowercase[chars[i]] ELSE chars[i]]

\* The mode word a string spells exactly, if any: what `project_mode in [...]`
\* compares.
Word(chars) ==
    IF \E w \in ModeWords : Letters(w) = chars
    THEN CHOOSE w \in ModeWords : Letters(w) = chars
    ELSE Unlisted

\* Lines 27-29: options.get('project', ''), lower-cased when it is truthy.
ProjectMode(opt) ==
    IF opt = None THEN NoMode
    ELSE IF opt.chars # <<>> THEN Word(lower(opt.chars))
    ELSE Word(opt.chars)

ReadModes == {"true", "read", "resume", "retranslate", "reparse"}
WriteModes == {"true", "write", "preview", "resume", "retranslate", "reparse"}
LoadModes == {"true", "write", "reload", "preview"}

GetProjectFilepath(filepath) ==
    IF filepath.ext = ".subtrans" THEN filepath ELSE Path(filepath.root, ".subtrans")

GetBackupFilepath(filepath) ==
    LET projectfile_ == GetProjectFilepath(filepath)
    IN  Path(projectfile_.root, projectfile_.ext \o "-backup")

\* No Translate* call is in progress.
NoCall == [stop |-> FALSE, primed |-> FALSE, subscribed |-> FALSE,
           failure |-> "none", exc |-> "none", rescue |-> 0,
           snap |-> [exists |-> FALSE, ver |-> 0]]

\* The content settings: a dict from some of the keys to values.
Keys == {"movie_name", "target_language"}
Values == {"a", "b"}
SettingsMaps == UNION {[D -> Values] : D \in SUBSET Keys}
NoSettings == [k \in {} |-> "a"]

\* A local variable that has not been assigned.
Unbound == [type |-> "unbound"]

\* No InitialiseProject call has been made.
NoInitialise ==
    [filepath |-> None, write_backup |-> FALSE, subtitles |-> Unbound,
     read |-> "not_called", loads |-> 0, backup |-> FALSE,
     before |-> [read |-> FALSE, write |-> FALSE, update |-> FALSE,
                 projectfile |-> None],
     end |-> "not_called"]

\* No UpdateProjectSettings call has been made.
NoUpdate ==
    [supplied |-> NoSettings, before |-> NoSettings, differs |-> FALSE,
     writes |-> 0, end |-> "not_called"]

\* Lines 17-42: the object as the constructor leaves it, for the option value
\* `opt` of options['project'] and `auto` of options['autosave'].  Line 42 names
\* the method _start_autosave_thread without calling it.
Constructed(opt, auto) ==
    /\ autosave = auto
    /\ option = opt
    /\ project_mode = ProjectMode(opt)
    /\ subtitles = None
    /\ projectfile = None
    /\ needsupdate = FALSE
    /\ lock = Unlocked
    /\ stop_event = NoEvent
    /\ read_project = (ProjectMode(opt) \in ReadModes)
    /\ write_project = (ProjectMode(opt) \in WriteModes)
    /\ update_project = (ProjectMode(opt) \in WriteModes /\ ~(ProjectMode(opt) \in {"reparse"}))
    /\ load_subtitles = (ProjectMode(opt) = NoMode \/ ProjectMode(opt) \in LoadModes)
    /\ preview = (ProjectMode(opt) \in {"preview"})
    /\ resume = (ProjectMode(opt) \in {"resume"})
    /\ reparse = (ProjectMode(opt) \in {"reparse"})
    /\ retranslate = (ProjectMode(opt) \in {"retranslate"})
    /\ bpc = "unstarted"

\* Nothing has been called on the object, no file has been written.
Untouched ==
    /\ icall = NoInitialise
    /\ ucall = NoUpdate
    /\ settings = NoSettings
    /\ output = [exists |-> FALSE, ver |-> 0]
    /\ handlers = [e \in EventNames |-> 0]
    /\ op = "idle" /\ pc = "none"
    /\ call = NoCall
    /\ ev = "none" /\ pending = 0 /\ hpc = "none" /\ hsave = "none"
    /\ wpc = [t \in Threads |-> "none"]
    /\ wbuf = [t \in Threads |-> <<>>]
    /\ wpath = [t \in Threads |-> None]
    /\ wres = [t \in Threads |-> "none"]

Init ==
    /\ \E m \in Modes, auto \in BOOLEAN : Constructed(Str(Letters(m)), auto)
    /\ Untouched
    /\ disk = [p \in Paths |-> NoFile]

\* -------------------------------------------------------- WriteProjectFile
\* The lock left out: the block is entered whoever holds it.
LockIgnored == TRUE

\* `with self.lock:` can be entered when no thread holds the lock.
LockFree == lock = Unlocked

\* An exception leaving the block with the lock still held.
WriteRaiseKeepsLock(t, err) ==
    /\ wpc' = [wpc EXCEPT ![t] = "ret_exc"]
    /\ wres' = [wres EXCEPT ![t] = err]
    /\ wbuf' = [wbuf EXCEPT ![t] = <<>>]
    /\ wpath' = [wpath EXCEPT ![t] = None]
    /\ lock' = t

\* Leaving the `with self.lock:` block by an exception.
WriteRaise(t, err) ==
    /\ wpc' = [wpc EXCEPT ![t] = "ret_exc"]
    /\ wres' = [wres EXCEPT ![t] = err]
    /\ wbuf' = [wbuf EXCEPT ![t] = <<>>]
    /\ wpath' = [wpath EXCEPT ![t] = None]
    /\ lock' = Unlocked

\* The preconditions without the test for scenes.
PreconditionErrorWithoutScenes(s) ==
    IF ~Truthy(s) THEN "no_subtitles"
    ELSE IF ~isinstance_SubtitleFile(s) THEN "wrong_type"
    ELSE "none"

\* The three content preconditions, in the order the code tests them.
PreconditionError(s) ==
    IF ~Truthy(s) THEN "no_subtitles"
    ELSE IF ~isinstance_SubtitleFile(s) THEN "wrong_type"
    ELSE IF s.scenes = 0 THEN "no_scenes"
    ELSE "none"

\* Lines 138-163: take the lock, test the preconditions, force the flags for an
\* explicit path, resolve the target path.
WriteEnter(t) ==
    /\ wpc[t] = "enter"
    /\ LockFree
    /\ LET arg == wpath[t]
           target == IF arg = None THEN projectfile ELSE arg
       IN  IF PreconditionError(subtitles) # "none"
           THEN /\ WriteRaise(t, PreconditionError(subtitles))
                /\ UNCHANGED <<projectfile, flagvars>>
           ELSE /\ IF arg # None /\ ~write_project
                   THEN write_project' = TRUE /\ read_project' = TRUE
                   ELSE UNCHANGED <<write_project, read_project>>
                /\ projectfile' = IF arg # None /\ projectfile = None
                                  THEN GetProjectFilepath(arg) ELSE projectfile
                /\ UNCHANGED <<update_project, load_subtitles>>
                /\ IF target = None
                   THEN WriteRaise(t, "no_path")
                   ELSE /\ lock' = t
                        /\ wpc' = [wpc EXCEPT ![t] = "open"]
                        /\ wpath' = [wpath EXCEPT ![t] = target]
                        /\ wbuf' = [wbuf EXCEPT ![t] = <<>>]
                        /\ UNCHANGED wres
    /\ UNCHANGED <<optvars, callvars, subtitles, needsupdate, stop_event, disk, output,
                   handlers, fgvars, bpc>>

\* Line 165: open(projectfile, 'w') truncates the file, or fails and leaves it.
WriteOpen(t) ==
    /\ wpc[t] = "open"
    /\ \/ /\ disk' = [disk EXCEPT ![wpath[t]] = Truncated]
          /\ wpc' = [wpc EXCEPT ![t] = "dumps"]
          /\ UNCHANGED <<wres, lock, wbuf, wpath>>
       \/ /\ WriteRaise(t, "io_error")
          /\ UNCHANGED disk
    /\ UNCHANGED <<optvars, callvars, subtitles, projectfile, needsupdate, stop_event,
                   flagvars, output, handlers, fgvars, bpc>>

\* Line 166: json.dumps encodes the content part by part, reading the object as
\* it is at that moment; the encoder raises on an object it cannot encode.
WriteDumps(t) ==
    /\ wpc[t] = "dumps"
    /\ \/ /\ isinstance_SubtitleFile(subtitles)
          /\ wbuf' = [wbuf EXCEPT ![t] = Append(@, subtitles.ver)]
          /\ wpc' = [wpc EXCEPT ![t] = IF Len(wbuf[t]) = 1 THEN "write" ELSE "dumps"]
          /\ UNCHANGED <<wres, lock, wpath>>
       \/ WriteRaise(t, "encode_error")
    /\ UNCHANGED <<optvars, callvars, subtitles, projectfile, needsupdate, stop_event,
                   flagvars, disk, output, handlers, fgvars, bpc>>

\* Line 167 and the end of the `with open` block: the text reaches the file in
\* two flushes (buffer full, close); either may fail with an I/O error.
WriteFlush(t) ==
    /\ wpc[t] = "write"
    /\ \/ LET f == disk[wpath[t]]
              n == Len(f.data) + 1
          IN  /\ n <= 2
              /\ disk' = [disk EXCEPT ![wpath[t]] =
                             [exists |-> TRUE,
                              data |-> Append(f.data, Chunk(t, wbuf[t][n]))]]
              /\ wpc' = [wpc EXCEPT ![t] = IF n = 2 THEN "clear" ELSE "write"]
              /\ UNCHANGED <<wres, lock, wbuf, wpath>>
       \/ /\ WriteRaise(t, "io_error")
          /\ UNCHANGED disk
    /\ UNCHANGED <<optvars, callvars, subtitles, projectfile, needsupdate, stop_event,
                   flagvars, output, handlers, fgvars, bpc>>

\* Line 169 and the end of the `with self.lock` block.
WriteClear(t) ==
    /\ wpc[t] = "clear"
    /\ needsupdate' = FALSE
    /\ lock' = Unlocked
    /\ wpc' = [wpc EXCEPT ![t] = "ret_ok"]
    /\ wres' = [wres EXCEPT ![t] = "ok"]
    /\ wbuf' = [wbuf EXCEPT ![t] = <<>>]
    /\ wpath' = [wpath EXCEPT ![t] = None]
    /\ UNCHANGED <<optvars, callvars, subtitles, projectfile, stop_event, flagvars, disk,
                   output, handlers, fgvars, bpc>>

WriteProjectFile(t) ==
    \/ WriteEnter(t)
    \/ WriteOpen(t)
    \/ WriteDumps(t)
    \/ WriteFlush(t)
    \/ WriteClear(t)

\* The positions inside `with open(...)`: the file-writing section.
InWriteSection(t) == wpc[t] \in {"open", "dumps", "write", "clear"}

\* ----------------------------------------------------------- ReadProjectFile
\* What the constructor, InitialiseProject, ReadProjectFile and
\* UpdateProjectSettings never touch: the translation run and the autosave thread.
runvars == <<needsupdate, stop_event, update_project, output, handlers, call,
             ev, pending, hpc, hsave, bpc>>

\* A project file found on disk at start: two chunks, as a writer leaves them,
\* of content with or without scenes.
OldChunk(n, v) == [by |-> "old", ver |-> v, scenes |-> n]
OldFile(n, v) == [exists |-> TRUE, data |-> <<OldChunk(n, v), OldChunk(n, v)>>]
\* A file whose bytes are not text in default_encoding.
Garbled == [exists |-> TRUE, data |-> <<[by |-> "garbled", ver |-> 0]>>]

\* Lines 188-189: open(filepath, 'r', encoding=default_encoding) and
\* json.load(f, cls=SubtitleDecoder).  Reading bytes that are no text in the
\* encoding raises UnicodeDecodeError, text that is no complete JSON document
\* raises json.JSONDecodeError.
LoadError(f) ==
    IF ~f.exists THEN "FileNotFoundError"
    ELSE IF f = Garbled THEN "UnicodeDecodeError"
    ELSE IF ~IsComplete(f) THEN "JSONDecodeError"
    ELSE "none"

\* The content a complete file decodes to.  WriteProjectFile writes content
\* with scenes only (line 145).
Decoded(f) ==
    SubtitleFile(IF f.data[1].by = "old" THEN f.data[1].scenes ELSE 1, f.data[2].ver)

\* Lines 196 and 200: the exceptions ReadProjectFile turns into a None result.
ReadCatches(exc) == exc \in {"FileNotFoundError", "JSONDecodeError"}

\* ReadProjectFile ends by an exception raised inside the try block: the lock
\* is released; a caught one makes the result None, another leaves the method
\* and, InitialiseProject having no try block, InitialiseProject too.
ReadRaise(exc) ==
    /\ lock' = Unlocked
    /\ IF ReadCatches(exc)
       THEN /\ icall' = [icall EXCEPT !.read = "returned_None", !.subtitles = None]
            /\ pc' = "loaded" /\ UNCHANGED op
       ELSE /\ icall' = [icall EXCEPT !.read = "raised", !.end = exc]
            /\ op' = "idle" /\ pc' = "none"
    /\ UNCHANGED <<subtitles, settings>>

\* Lines 184-188: take the lock, open the file.
ReadOpen ==
    /\ op = "InitialiseProject" /\ pc = "read"
    /\ LockFree
    /\ IF LoadError(disk[projectfile]) = "FileNotFoundError"
       THEN ReadRaise("FileNotFoundError")
       ELSE /\ lock' = "fg" /\ pc' = "json_load"
            /\ UNCHANGED <<icall, op, subtitles, settings>>
    /\ UNCHANGED <<optvars, runvars, ucall, projectfile, read_project,
                   write_project, load_subtitles, disk, wvars>>

\* Lines 189-194: decode, sanitise, attach to the project, return the content.
\* The settings a project file holds are whatever was stored in it.
ReadLoad ==
    /\ op = "InitialiseProject" /\ pc = "json_load"
    /\ LET f == disk[projectfile]
       IN  IF LoadError(f) # "none"
           THEN ReadRaise(LoadError(f))
           ELSE /\ subtitles' = Decoded(f)
                /\ \E s \in SettingsMaps : settings' = s
                /\ icall' = [icall EXCEPT !.read = "returned_content",
                                         !.subtitles = Decoded(f)]
                /\ lock' = Unlocked
                /\ pc' = "loaded" /\ UNCHANGED op
    /\ UNCHANGED <<optvars, runvars, ucall, projectfile, read_project,
                   write_project, load_subtitles, disk, wvars>>

ReadProjectFile ==
    \/ ReadOpen
    \/ ReadLoad

\* The project file is removed by another program after line 68 saw it.
ProjectFileRemoved ==
    /\ op = "InitialiseProject" /\ pc = "read"
    /\ disk[projectfile].exists
    /\ disk' = [disk EXCEPT ![projectfile] = NoFile]
    /\ UNCHANGED <<optvars, callvars, projvars, output, handlers, fgvars, wvars, bpc>>

\* --------------------------------------------------------- InitialiseProject
\* The input paths a caller gives: a source subtitle file, or the project file.
SourcePath == Path("P", ".srt")
InputPaths == {SourcePath, ProjectPath}

\* Line 63: self.projectfile == filepath and not self.read_project.
ForcesProjectFlags(filepath) ==
    GetProjectFilepath(filepath) = filepath /\ ~read_project

\* Lines 53-65: the call, the project path, the path check.
InitialiseProject ==
    /\ op = "idle" /\ icall.end = "not_called"
    /\ \E filepath \in InputPaths, write_backup \in BOOLEAN :
          /\ projectfile' = GetProjectFilepath(filepath)
          /\ read_project' = IF ForcesProjectFlags(filepath) THEN TRUE ELSE read_project
          /\ write_project' = IF ForcesProjectFlags(filepath) THEN TRUE ELSE write_project
          /\ icall' = [NoInitialise EXCEPT !.filepath = filepath,
                                           !.write_backup = write_backup,
                                           !.end = "running"]
    /\ op' = "InitialiseProject" /\ pc' = "exists"
    /\ UNCHANGED <<optvars, runvars, ucall, settings, subtitles, lock,
                   load_subtitles, disk, wvars>>

\* Lines 67-73: a project file that does not exist is not read.
InitialiseExists ==
    /\ op = "InitialiseProject" /\ pc = "exists"
    /\ IF read_project /\ ~disk[projectfile].exists
       THEN /\ read_project' = FALSE
            /\ load_subtitles' = TRUE
            /\ pc' = "load"
       ELSE /\ UNCHANGED <<read_project, load_subtitles>>
            /\ pc' = IF read_project THEN "read" ELSE "load"
    /\ UNCHANGED <<optvars, runvars, callvars, subtitles, projectfile, lock,
                   write_project, disk, op, wvars>>

\* The project file never counts as loaded.
ProjectFileNeverLoaded(s) == FALSE

\* Line 77: subtitles and subtitles.scenes.
ProjectFileLoaded(s) == s # None /\ s.scenes = 1

\* Lines 171-177, called at line 81: WriteProjectFile(backupfile).
WriteBackupFile ==
    /\ op = "InitialiseProject" /\ pc = "write_backup"
    /\ IF Truthy(subtitles) /\ projectfile # None
       THEN /\ wpath' = [wpath EXCEPT !["fg"] = GetBackupFilepath(projectfile)]
            /\ wpc' = [wpc EXCEPT !["fg"] = "enter"]
            /\ pc' = "backup"
       ELSE /\ pc' = "load"
            /\ UNCHANGED <<wpath, wpc>>
    /\ UNCHANGED <<optvars, runvars, callvars, subtitles, projectfile, lock,
                   read_project, write_project, load_subtitles, disk, op,
                   wbuf, wres>>

\* Lines 77-86: what ReadProjectFile returned decides whether the source file
\* is loaded; the flags and the path are remembered as they are before the
\* backup copy is written.
InitialiseLoaded ==
    /\ op = "InitialiseProject" /\ pc = "loaded"
    /\ load_subtitles' = ~ProjectFileLoaded(icall.subtitles)
    /\ pc' = IF ProjectFileLoaded(icall.subtitles) /\ icall.write_backup
             THEN "write_backup" ELSE "load"
    /\ icall' = [icall EXCEPT !.before = [read |-> read_project,
                                          write |-> write_project,
                                          update |-> update_project,
                                          projectfile |-> projectfile]]
    /\ UNCHANGED <<optvars, runvars, ucall, settings, subtitles, projectfile,
                   lock, read_project, write_project, disk, op, wvars>>

\* Line 81 returning or raising.
InitialiseBackup ==
    /\ op = "InitialiseProject" /\ pc = "backup"
    /\ wpc["fg"] \in {"ret_ok", "ret_exc"}
    /\ wpc' = [wpc EXCEPT !["fg"] = "none"]
    /\ wres' = [wres EXCEPT !["fg"] = "none"]
    /\ IF wpc["fg"] = "ret_ok"
       THEN /\ icall' = [icall EXCEPT !.backup = TRUE]
            /\ pc' = "load" /\ UNCHANGED op
       ELSE /\ icall' = [icall EXCEPT !.end = wres["fg"]]
            /\ op' = "idle" /\ pc' = "none"
    /\ UNCHANGED <<optvars, runvars, ucall, settings, subtitles, projectfile,
                   lock, read_project, write_project, load_subtitles, disk,
                   wbuf, wpath>>

\* Lines 88-90: LoadSubtitleFile(filepath), lines 123-132, under the lock.  A
\* source file loads with or without scenes and with empty settings.
InitialiseLoad ==
    /\ op = "InitialiseProject" /\ pc = "load"
    /\ pc' = "check"
    /\ IF load_subtitles
       THEN /\ LockFree
            /\ \E n \in {0, 1} :
                  /\ subtitles' = SubtitleFile(n, 0)
                  /\ icall' = [icall EXCEPT !.subtitles = SubtitleFile(n, 0),
                                           !.loads = @ + 1]
            /\ settings' = NoSettings
       ELSE UNCHANGED <<subtitles, icall, settings>>
    /\ UNCHANGED <<optvars, runvars, ucall, projectfile, lock, read_project,
                   write_project, load_subtitles, disk, op, wvars>>

\* Lines 92-96: the local `subtitles` is used; it is unbound when neither the
\* project file was read nor the source file loaded.  `has` is the content's
\* has_subtitles.
InitialiseCheck ==
    /\ op = "InitialiseProject" /\ pc = "check"
    /\ \E has \in BOOLEAN :
          icall' = [icall EXCEPT !.end =
                       IF icall.subtitles = Unbound THEN "UnboundLocalError"
                       ELSE IF ~has THEN "ValueError"
                       ELSE "returned"]
    /\ op' = "idle" /\ pc' = "none"
    /\ UNCHANGED <<optvars, runvars, ucall, settings, projvars, disk, wvars>>

\* ------------------------------------------------------------ autosave loop
\* Lines 307-312, when a caller invokes the method.
_start_autosave_thread ==
    /\ op = "idle"
    /\ stop_event = NoEvent
    /\ stop_event' = "clear"
    /\ bpc' = "loop"
    /\ UNCHANGED <<optvars, callvars, subtitles, projectfile, needsupdate, lock, flagvars,
                   disk, output, handlers, fgvars, wvars>>

\* What the loop does with the outcome of its WriteProjectFile call: the call
\* is not inside a try block, so an exception ends the thread.
AfterAutosaveWrite(res) == IF res = "ret_ok" THEN "wait" ELSE "dead"

\* Lines 314-319.
_background_autosave ==
    /\ UNCHANGED <<optvars, callvars, subtitles, projectfile, lock, stop_event, flagvars,
                   disk, output, handlers, fgvars, wbuf>>
    /\ \/ /\ bpc = "loop"
          /\ bpc' = IF stop_event = "set" THEN "exited"
                    ELSE IF needsupdate THEN "dirty" ELSE "wait"
          /\ UNCHANGED <<needsupdate, wpc, wpath, wres>>
       \/ /\ bpc = "dirty"
          /\ needsupdate' = FALSE
          /\ wpc' = [wpc EXCEPT !["bg"] = "enter"]
          /\ bpc' = "writing"
          /\ UNCHANGED <<wpath, wres>>
       \/ /\ bpc = "writing"
          /\ wpc["bg"] \in {"ret_ok", "ret_exc"}
          /\ bpc' = AfterAutosaveWrite(wpc["bg"])
          /\ wpc' = [wpc EXCEPT !["bg"] = "none"]
          /\ wres' = [wres EXCEPT !["bg"] = "none"]
          /\ UNCHANGED <<needsupdate, wpath>>
       \/ /\ bpc = "wait"
          /\ bpc' = "loop"
          /\ UNCHANGED <<needsupdate, wpc, wpath, wres>>

\* Lines 44-47.
__del__ ==
    /\ UNCHANGED <<optvars, callvars, subtitles, projectfile, needsupdate, lock, flagvars,
                   disk, output, handlers, call, ev, pending, hpc, hsave,
                   wvars, bpc>>
    /\ \/ /\ op = "idle"
          /\ stop_event' = IF stop_event = NoEvent THEN NoEvent ELSE "set"
          /\ op' = IF stop_event = NoEvent THEN "deleted" ELSE "__del__"
          /\ pc' = IF stop_event = NoEvent THEN "none" ELSE "join"
       \/ /\ op = "__del__" /\ pc = "join"
          /\ bpc \in {"exited", "dead"}
          /\ op' = "deleted" /\ pc' = "none"
          /\ UNCHANGED stop_event

\* ------------------------------------------------- foreground: simple methods
\* Lines 123-132.  What a source file holds is the collaborator's business: it
\* may load with or without scenes, or fail after self.subtitles was replaced.
LoadSubtitleFile ==
    /\ op = "idle"
    /\ LockFree
    /\ \E n \in {0, 1} : subtitles' = SubtitleFile(n, 0)
    /\ UNCHANGED <<optvars, callvars, projectfile, needsupdate, lock, stop_event, flagvars,
                   disk, output, handlers, fgvars, wvars, bpc>>

\* A caller assigning the public attribute `subtitles` an object that is no
\* SubtitleFile (the case line 142 tests for).
AssignSubtitles ==
    /\ op = "idle"
    /\ \E b \in BOOLEAN : subtitles' = WrongType(b)
    /\ UNCHANGED <<optvars, callvars, projectfile, needsupdate, lock, stop_event, flagvars,
                   disk, output, handlers, fgvars, wvars, bpc>>

\* UpdateProjectFile without the test of the update flag.
UpdateProjectFileAlways ==
    /\ op = "idle"
    /\ needsupdate' = IF Truthy(subtitles) THEN TRUE ELSE needsupdate
    /\ UNCHANGED <<optvars, callvars, subtitles, projectfile, lock, stop_event, flagvars,
                   disk, output, handlers, fgvars, wvars, bpc>>

\* Lines 204-212.
UpdateProjectFile ==
    /\ op = "idle"
    /\ needsupdate' = IF update_project /\ Truthy(subtitles) THEN TRUE ELSE needsupdate
    /\ UNCHANGED <<optvars, callvars, subtitles, projectfile, lock, stop_event, flagvars,
                   disk, output, handlers, fgvars, wvars, bpc>>

\* The path arguments callers pass to WriteProjectFile.
WriteArguments == {None, ProjectPath}

\* A caller's own WriteProjectFile(projectfile) call and its return.
CallWriteProjectFile ==
    /\ UNCHANGED <<optvars, callvars, projvars, disk, output, handlers, call, ev, pending,
                   hpc, hsave, wbuf, bpc>>
    /\ \/ /\ op = "idle"
          /\ \E arg \in WriteArguments : wpath' = [wpath EXCEPT !["fg"] = arg]
          /\ wpc' = [wpc EXCEPT !["fg"] = "enter"]
          /\ op' = "WriteProjectFile" /\ pc' = "write"
          /\ UNCHANGED wres
       \/ /\ op = "WriteProjectFile"
          /\ wpc["fg"] \in {"ret_ok", "ret_exc"}
          /\ wpc' = [wpc EXCEPT !["fg"] = "none"]
          /\ wres' = [wres EXCEPT !["fg"] = "none"]
          /\ op' = "idle" /\ pc' = "none"
          /\ UNCHANGED wpath

\* ------------------------------------------------------------ SaveTranslation
\* SaveTranslation without its try/except: a failed save raises.
SaveTranslationUnguarded(saved) == ~saved

\* Lines 98-106: self.subtitles.SaveTranslation() inside try/except Exception.
\* `saved` is whether the collaborator's save succeeded; it fails on an object
\* that is no SubtitleFile.  The value is whether an exception leaves the method.
SaveTranslationRaises(saved) == FALSE

SaveCanSucceed == isinstance_SubtitleFile(subtitles)

OutputAfterSave(saved) ==
    IF saved THEN [exists |-> TRUE, ver |-> subtitles.ver] ELSE output

\* --------------------------------------------------------------- translation
TranslateSubtitlesEvents == {"preprocessed", "batch_translated", "scene_translated"}
TranslateSceneEvents == {"preprocessed", "batch_translated"}

EventsOf(o) == IF o = "TranslateSubtitles" THEN TranslateSubtitlesEvents
               ELSE TranslateSceneEvents

Translating == op \in {"TranslateSubtitles", "TranslateScene"}

\* No entry point primes the project file.
PrimesNever(o) == FALSE

\* Line 248: whether the entry point primes the project file.
PrimesProjectFile(o) == o = "TranslateSubtitles" /\ write_project

\* The aborted signal caught by the general except clause.
CaughtByGeneralClause(exc) == "exception"

\* The except clause an exception raised inside the try block is caught by
\* (lines 264 and 268, 297 and 300).
CaughtBy(exc) == IF exc = "TranslationAbortedError" THEN "aborted" ELSE "exception"

\* Lines 269 and 301.
RescueSave(stop_on_error) == Truthy(subtitles) /\ stop_on_error

\* Whether the handlers are unsubscribed on the path through the except clauses.
UnsubscribeOnError == FALSE

\* An exception raised inside the try block: control moves to the except
\* clauses.  The call remembers the exception and the output file as it was.
Raise(exc) ==
    /\ call' = [call EXCEPT !.failure = exc, !.exc = exc, !.snap = output']
    /\ pc' = "except"

\* Lines 240-249 and 275-280: the entry of either method, with the translator's
\* stop_on_error flag as the caller configured it.  (Without content the method
\* raises at once and changes nothing.)
TranslateCall ==
    /\ op = "idle"
    /\ \A e \in EventNames : handlers[e] < MaxHandlers
    /\ Truthy(subtitles)
    /\ \E o \in {"TranslateSubtitles", "TranslateScene"}, stop \in BOOLEAN :
          /\ op' = o
          /\ call' = [NoCall EXCEPT !.stop = stop]
          /\ IF PrimesProjectFile(o)
             THEN /\ pc' = "prime"
                  /\ wpc' = [wpc EXCEPT !["fg"] = "enter"]
             ELSE pc' = "subscribe" /\ UNCHANGED wpc
    /\ UNCHANGED <<optvars, callvars, projvars, disk, output, handlers, ev, pending, hpc,
                   hsave, wbuf, wpath, wres, bpc>>

\* Line 249 returning or raising; the call is outside the try block.
TranslatePrimed ==
    /\ op = "TranslateSubtitles" /\ pc = "prime"
    /\ wpc["fg"] \in {"ret_ok", "ret_exc"}
    /\ wpc' = [wpc EXCEPT !["fg"] = "none"]
    /\ wres' = [wres EXCEPT !["fg"] = "none"]
    /\ IF wpc["fg"] = "ret_ok"
       THEN pc' = "subscribe" /\ call' = [call EXCEPT !.primed = TRUE] /\ UNCHANGED op
       ELSE op' = "idle" /\ pc' = "none" /\ call' = NoCall
    /\ UNCHANGED <<optvars, callvars, projvars, disk, output, handlers, ev, pending, hpc,
                   hsave, wbuf, wpath, bpc>>

\* Lines 252-254 and 283-284.
Subscribe ==
    /\ Translating /\ pc = "subscribe"
    /\ handlers' = [e \in EventNames |->
                      IF e \in EventsOf(op) THEN handlers[e] + 1 ELSE handlers[e]]
    /\ pc' = IF op = "TranslateScene" THEN "getscene" ELSE "translate"
    /\ call' = [call EXCEPT !.subscribed = TRUE]
    /\ UNCHANGED <<optvars, callvars, projvars, disk, output, op, ev, pending, hpc,
                   hsave, wvars, bpc>>

\* Line 286: self.subtitles.GetScene(scene_number) raises for a scene the
\* content does not hold (`found` is whether it holds scene_number).
GetScene ==
    /\ op = "TranslateScene" /\ pc = "getscene"
    /\ UNCHANGED <<optvars, callvars, projvars, disk, output, handlers, op, ev,
                   pending, hpc, hsave, wvars, bpc>>
    /\ \E found \in BOOLEAN :
          IF isinstance_SubtitleFile(subtitles) /\ subtitles.scenes = 1 /\ found
          THEN pc' = "translate" /\ UNCHANGED call
          ELSE Raise("GetSceneError")

\* Lines 258-260 and 290-291.
Unsubscribed(h, o) ==
    [e \in EventNames |-> IF e \in EventsOf(o) /\ h[e] > 0 THEN h[e] - 1 ELSE h[e]]

Unsubscribe ==
    /\ Translating /\ pc = "unsubscribe"
    /\ handlers' = Unsubscribed(handlers, op)
    /\ pc' = "finalsave"
    /\ UNCHANGED <<optvars, callvars, projvars, disk, output, op, call, ev, pending,
                   hpc, hsave, wvars, bpc>>

\* Lines 262 and 293-295: the final save, inside the try block, and the return.
FinalSave ==
    /\ Translating /\ pc = "finalsave"
    /\ UNCHANGED <<optvars, callvars, projvars, disk, handlers, ev, pending, hpc, hsave, wvars, bpc>>
    /\ \E saved \in {FALSE, SaveCanSucceed} :
          /\ output' = OutputAfterSave(saved)
          /\ IF SaveTranslationRaises(saved)
             THEN Raise("SaveError") /\ UNCHANGED op
             ELSE op' = "idle" /\ pc' = "none" /\ call' = NoCall

\* Lines 264-273 and 297-305: the except clauses up to the `raise`.
Except ==
    /\ Translating /\ pc = "except"
    /\ handlers' = IF UnsubscribeOnError THEN Unsubscribed(handlers, op) ELSE handlers
    /\ pc' = "reraise"
    /\ IF CaughtBy(call.exc) = "aborted" \/ ~RescueSave(call.stop)
       THEN UNCHANGED <<call, output>>
       ELSE \E saved \in {FALSE, SaveCanSucceed} :
               /\ output' = OutputAfterSave(saved)
               /\ call' = [call EXCEPT !.rescue = @ + 1,
                              !.exc = IF SaveTranslationRaises(saved)
                                      THEN "SaveError" ELSE @]
    /\ UNCHANGED <<optvars, callvars, projvars, disk, op, ev, pending, hpc, hsave, wvars, bpc>>

\* Lines 266, 273, 298, 305: `raise` hands call.exc to the caller.
Reraise ==
    /\ Translating /\ pc = "reraise"
    /\ op' = "idle" /\ pc' = "none"
    /\ call' = NoCall
    /\ UNCHANGED <<optvars, callvars, projvars, disk, output, handlers, ev, pending, hpc,
                   hsave, wvars, bpc>>

\* ---------------------------------------------- the translator (collaborator)
\* translator.TranslateSubtitles / TranslateScene run on the foreground thread:
\* they mutate the content, fire events (each calls every subscribed handler,
\* as often as it is subscribed), and return, abort or fail.  Preprocessing
\* makes the scenes; a batch is translated, and a scene completes, only in
\* content that has scenes.
FirstStep(e) == IF e = "scene_translated" THEN "save" ELSE "dirty"

Mutated(s, e) ==
    IF e = "preprocessed" THEN [s EXCEPT !.scenes = 1]
    ELSE IF e = "batch_translated" THEN [s EXCEPT !.ver = @ + 1]
    ELSE s

TranslatorEvent ==
    /\ Translating /\ pc = "translate"
    /\ ev = "none"
    /\ isinstance_SubtitleFile(subtitles)
    /\ \E e \in EventNames :
          /\ e # "preprocessed" => subtitles.scenes = 1
          /\ e = "batch_translated" => subtitles.ver < MaxVer
          /\ subtitles' = Mutated(subtitles, e)
          /\ ev' = IF handlers[e] > 0 THEN e ELSE "none"
          /\ pending' = handlers[e]
          /\ hpc' = IF handlers[e] > 0 THEN FirstStep(e) ELSE "none"
    /\ UNCHANGED <<optvars, callvars, projectfile, needsupdate, lock, stop_event, flagvars,
                   disk, output, handlers, op, pc, call, hsave, wvars, bpc>>

TranslatorReturn ==
    /\ Translating /\ pc = "translate"
    /\ ev = "none"
    /\ pc' = "unsubscribe"
    /\ UNCHANGED <<optvars, callvars, projvars, disk, output, handlers, op, call,
                   ev, pending, hpc, hsave, wvars, bpc>>

TranslatorRaise ==
    /\ Translating /\ pc = "translate"
    /\ ev = "none"
    /\ UNCHANGED <<optvars, callvars, projvars, disk, output, handlers, op,
                   ev, pending, hpc, hsave, wvars, bpc>>
    /\ \E exc \in {"TranslationAbortedError", "TranslationError"} : Raise(exc)

\* ------------------------------------------------------------ event handlers
\* The scene-completed handler without its save.
SceneHandlerSkipsSave == FALSE

\* Whether _on_scene_translated saves the output (line 333).
SceneHandlerSaves == TRUE

\* Line 333.
_on_scene_translated_save ==
    /\ ev = "scene_translated" /\ hpc = "save"
    /\ UNCHANGED <<optvars, callvars, projvars, disk, handlers, op, wvars, bpc>>
    /\ \E saved \in {FALSE, SaveCanSucceed /\ SceneHandlerSaves} :
          /\ output' = OutputAfterSave(saved)
          /\ IF SaveTranslationRaises(saved)
             THEN /\ Raise("SaveError")
                  /\ ev' = "none" /\ pending' = 0 /\ hpc' = "none" /\ hsave' = "none"
             ELSE /\ hsave' = IF ~SceneHandlerSaves THEN "none"
                              ELSE IF saved THEN "saved" ELSE "failed"
                  /\ hpc' = "dirty"
                  /\ UNCHANGED <<pc, call, ev, pending>>

\* Lines 323, 328, 334: self.needsupdate = self.update_project.
_on_event_needsupdate ==
    /\ ev # "none" /\ hpc = "dirty"
    /\ needsupdate' = update_project
    /\ hpc' = "forward"
    /\ UNCHANGED <<optvars, callvars, subtitles, projectfile, lock, stop_event, flagvars,
                   disk, output, handlers, op, pc, call, ev, pending,
                   hsave, wvars, bpc>>

\* Lines 324, 329, 335: the event is forwarded to the project's own listeners;
\* then the translator calls the next subscribed handler, if any.
_on_event_forward ==
    /\ ev # "none" /\ hpc = "forward"
    /\ pending' = pending - 1
    /\ ev' = IF pending > 1 THEN ev ELSE "none"
    /\ hpc' = IF pending > 1 THEN FirstStep(ev) ELSE "none"
    /\ hsave' = "none"
    /\ UNCHANGED <<optvars, callvars, projvars, disk, output, handlers, op, pc, call, wvars, bpc>>

\* --------------------------------------------------------------------- Next
Next ==
    \/ \E t \in Threads : WriteProjectFile(t)
    \/ _start_autosave_thread
    \/ _background_autosave
    \/ __del__
    \/ LoadSubtitleFile
    \/ AssignSubtitles
    \/ UpdateProjectFile
    \/ CallWriteProjectFile
    \/ TranslateCall
    \/ TranslatePrimed
    \/ Subscribe
    \/ GetScene
    \/ TranslatorEvent
    \/ TranslatorReturn
    \/ TranslatorRaise
    \/ _on_scene_translated_save
    \/ _on_event_needsupdate
    \/ _on_event_forward
    \/ Unsubscribe
    \/ FinalSave
    \/ Except
    \/ Reraise

Spec == Init /\ [][Next]_vars

\* ----------------------------------------------------- UpdateProjectSettings
\* dict.get(key): the value, or None for a key the dict does not hold.
Get(d, key) == IF key \in DOMAIN d THEN d[key] ELSE "None"

\* The comparison left out: every call counts as a change.
SettingsNeverMatch(supplied, stored) == FALSE

\* Line 231: all(settings.get(key) == self.subtitles.settings.get(key) ...).
SettingsMatch(supplied, stored) ==
    \A key \in DOMAIN supplied : Get(supplied, key) = Get(stored, key)

\* self.subtitles.UpdateProjectSettings(settings): the supplied entries replace
\* the stored ones.
Updated(stored, supplied) ==
    [key \in DOMAIN stored \cup DOMAIN supplied |->
        IF key \in DOMAIN supplied THEN supplied[key] ELSE stored[key]]

\* Lines 220-234: the part under the lock.  The script calls the method once
\* InitialiseProject has returned.
UpdateProjectSettings ==
    /\ op = "idle" /\ ucall.end = "not_called"
    /\ icall.end = "returned"
    /\ LockFree
    /\ \E supplied \in SettingsMaps :
          IF ~Truthy(subtitles) \/ SettingsMatch(supplied, settings)
          THEN /\ ucall' = [NoUpdate EXCEPT !.supplied = supplied,
                                            !.before = settings,
                                            !.end = "returned"]
               /\ UNCHANGED <<settings, op, pc>>
          ELSE /\ ucall' = [NoUpdate EXCEPT !.supplied = supplied,
                                            !.before = settings,
                                            !.differs = TRUE,
                                            !.end = "running"]
               /\ settings' = Updated(settings, supplied)
               /\ op' = "UpdateProjectSettings" /\ pc' = "scenes"
    /\ UNCHANGED <<optvars, runvars, icall, subtitles, projectfile, lock,
                   read_project, write_project, load_subtitles, disk, wvars>>

\* Lines 236-238: outside the lock, WriteProjectFile() when there are scenes.
UpdateProjectSettingsWrite ==
    /\ op = "UpdateProjectSettings" /\ pc = "scenes"
    /\ IF subtitles.scenes = 1
       THEN /\ wpc' = [wpc EXCEPT !["fg"] = "enter"]
            /\ ucall' = [ucall EXCEPT !.writes = @ + 1]
            /\ pc' = "write" /\ UNCHANGED op
       ELSE /\ ucall' = [ucall EXCEPT !.end = "returned"]
            /\ op' = "idle" /\ pc' = "none"
            /\ UNCHANGED wpc
    /\ UNCHANGED <<optvars, runvars, icall, settings, subtitles, projectfile,
                   lock, read_project, write_project, load_subtitles, disk,
                   wbuf, wpath, wres>>

\* Line 238 returning or raising.
UpdateProjectSettingsReturn ==
    /\ op = "UpdateProjectSettings" /\ pc = "write"
    /\ wpc["fg"] \in {"ret_ok", "ret_exc"}
    /\ wpc' = [wpc EXCEPT !["fg"] = "none"]
    /\ wres' = [wres EXCEPT !["fg"] = "none"]
    /\ ucall' = [ucall EXCEPT !.end = IF wpc["fg"] = "ret_ok" THEN "returned"
                                      ELSE wres["fg"]]
    /\ op' = "idle" /\ pc' = "none"
    /\ UNCHANGED <<optvars, runvars, icall, settings, subtitles, projectfile,
                   lock, read_project, write_project, load_subtitles, disk,
                   wbuf, wpath>>

\* ------------------------------------------- initialisation as the script runs it
\* The script gives no autosave option.  The values of options['project']: absent, every
\* mode word in lower case, in upper case and capitalised, and strings that
\* are no mode word.
Uppercase(c) ==
    IF \E u \in DOMAIN Lowercase : Lowercase[u] = c
    THEN CHOOSE u \in DOMAIN Lowercase : Lowercase[u] = c
    ELSE c

upper(chars) == [i \in DOMAIN chars |-> Uppercase(chars[i])]

capitalize(chars) ==
    [i \in DOMAIN chars |-> IF i = 1 THEN Uppercase(chars[i]) ELSE chars[i]]

ProjectOptions ==
    {None}
    \cup {Str(Letters(w)) : w \in ModeWords}
    \cup {Str(upper(Letters(w))) : w \in ModeWords}
    \cup {Str(capitalize(Letters(w))) : w \in ModeWords}
    \cup {Str(<<"r", "e", "a", "d", "s">>), Str(<<"R", "e", "s", "u", "m", "e", "d">>)}

\* The project file a run may find: none, an empty file, a file in another
\* encoding, a project without scenes, a project with scenes.
ProjectFiles ==
    {NoFile, Truncated, Garbled} \cup {OldFile(n, v) : n \in {0, 1}, v \in 0..MaxVer}

InitInitialise ==
    /\ \E opt \in ProjectOptions : Constructed(opt, FALSE)
    /\ Untouched
    /\ \E f \in ProjectFiles : disk = [p \in Paths |-> IF p = ProjectPath THEN f ELSE NoFile]

NextInitialise ==
    \/ InitialiseProject
    \/ InitialiseExists
    \/ ProjectFileRemoved
    \/ ReadProjectFile
    \/ InitialiseLoaded
    \/ WriteBackupFile
    \/ InitialiseBackup
    \/ InitialiseLoad
    \/ InitialiseCheck
    \/ UpdateProjectSettings
    \/ UpdateProjectSettingsWrite
    \/ UpdateProjectSettingsReturn
    \/ \E t \in Threads : WriteProjectFile(t)

SpecInitialise == InitInitialise /\ [][NextInitialise]_vars

\* ------------------------------------------- the lock, with both threads running
\* The start of a run in mode "true" (read, write and update all set) in which
\* a caller starts the autosave thread and marks the project for update: every
\* method that takes the lock is called, the caller's on the foreground thread,
\* the loop's write on the background thread.  The project file on disk is a
\* project with scenes, or an empty file.
InitLock ==
    /\ Constructed(Str(Letters("true")), TRUE)
    /\ Untouched
    /\ \E f \in {OldFile(1, 0), Truncated} :
          disk = [p \in Paths |-> IF p = ProjectPath THEN f ELSE NoFile]

NextLock ==
    \/ NextInitialise
    \/ _start_autosave_thread
    \/ _background_autosave
    \/ UpdateProjectFile

\* A thread is at a `with self.lock:` it has not entered yet (lines 127, 138,
\* 185).
Waiting(t) ==
    \/ wpc[t] = "enter"
    \/ /\ t = "fg" /\ op = "InitialiseProject"
       /\ pc = "read" \/ (pc = "load" /\ load_subtitles)

\* Scheduling: a thread inside a `with self.lock:` block keeps running until it
\* leaves the block, and a thread blocked in Lock.acquire takes the lock when
\* it stays free.
FairLock ==
    /\ \A t \in Threads :
          /\ WF_vars(WriteEnter(t))
          /\ WF_vars(WriteOpen(t))
          /\ WF_vars(WriteDumps(t))
          /\ WF_vars(WriteFlush(t))
          /\ WF_vars(WriteClear(t))
    /\ WF_vars(ReadOpen)
    /\ WF_vars(ReadLoad)
    /\ WF_vars(InitialiseLoad)

SpecLock == InitLock /\ [][NextLock]_vars /\ FairLock

\* =================================================================== claims
AllUnsubscribed == \A e \in EventNames : handlers[e] = 0

\* C1: an autosave tick and an explicit WriteProjectFile never interleave: at
\* most one thread is inside the file-writing section, the thread inside holds
\* the lock, what is on disk while a thread writes is a prefix of that thread's
\* own encoding, and when a write completes the file is exactly the complete
\* encoding of the content as that write saw it, never a mix of two writes.
C1_WritesNeverInterleave ==
    /\ ~(InWriteSection("fg") /\ InWriteSection("bg"))
    /\ \A t \in Threads :
          /\ InWriteSection(t) => lock = t
          /\ wpc[t] \in {"write", "clear"} =>
                /\ disk[wpath[t]].exists
                /\ Len(disk[wpath[t]].data) <= Len(wbuf[t])
                /\ disk[wpath[t]].data = SubSeq(Encoding(t, wbuf[t]), 1, Len(disk[wpath[t]].data))
          /\ wpc[t] = "clear" =>
                /\ disk[wpath[t]].data = Encoding(t, wbuf[t])
                /\ IsComplete(disk[wpath[t]])
    /\ \A p \in Paths : \A i, j \in 1..Len(disk[p].data) : disk[p].data[i].by = disk[p].data[j].by

\* The autosave thread has completed its write while the caller's explicit
\* WriteProjectFile waits for the lock.
C1_Witness ==
    /\ op = "WriteProjectFile" /\ wpc["fg"] = "enter"
    /\ bpc = "writing" /\ wpc["bg"] = "clear"
    /\ disk[ProjectPath].data = Encoding("bg", wbuf["bg"])

\* C2: a project-file write is all-or-nothing: whenever no write is in
\* progress, every project file on disk is a complete encoding (a failed write
\* left the file as it was).
C2_WriteAllOrNothing ==
    (\A t \in Threads : ~InWriteSection(t)) =>
        \A p \in Paths : disk[p].exists => IsComplete(disk[p])

\* C3: WriteProjectFile called with absent content, content of the wrong type
\* or content without scenes raises the precondition error, and that step
\* neither opens nor changes any file.
C3_PreconditionErrors ==
    [][\A t \in Threads :
          (/\ wpc[t] = "enter" /\ wpc'[t] # "enter"
           /\ \/ subtitles = None
              \/ subtitles.type = "other"
              \/ (subtitles.type = "SubtitleFile" /\ subtitles.scenes = 0))
          => /\ wpc'[t] = "ret_exc"
             /\ wres'[t] \in {"no_subtitles", "wrong_type", "no_scenes"}
             /\ subtitles.type = "SubtitleFile" => wres'[t] = "no_scenes"
             /\ disk' = disk
             /\ lock' = Unlocked]_vars

\* The autosave write has failed on content of the wrong type and the caller's
\* write on content without scenes; the project file written earlier is intact.
C3_Witness ==
    /\ wpc["bg"] = "ret_exc" /\ wres["bg"] = "wrong_type"
    /\ wpc["fg"] = "ret_exc" /\ wres["fg"] = "no_scenes"
    /\ IsComplete(disk[ProjectPath])

\* C4 (as amended): in the scene-completed handler the output save has been
\* attempted and has returned before the dirty flag is set and before the event
\* is forwarded, whatever the autosave configuration and the mode flags; when
\* that save succeeded the output file holds the content's translation.
C4_SceneSavedBeforeDirty ==
    (ev = "scene_translated" /\ hpc \in {"dirty", "forward"}) =>
        /\ hsave \in {"saved", "failed"}
        /\ hsave = "saved" => output = [exists |-> TRUE, ver |-> subtitles.ver]

\* A scene completes after a translated batch, with no update mode and no
\* autosave thread, and its output is on disk when the event is forwarded.
C4_Witness ==
    /\ ev = "scene_translated" /\ hpc = "forward" /\ hsave = "saved"
    /\ ~update_project /\ ~autosave /\ stop_event = NoEvent
    /\ subtitles.ver = 1 /\ output.ver = 1

\* C4 as the claim states it: once the scene-completed handler is past its
\* save, the output file holds that scene's translation.
C4_SceneOutputNeverLost ==
    (ev = "scene_translated" /\ hpc \in {"dirty", "forward"}) =>
        output = [exists |-> TRUE, ver |-> subtitles.ver]

\* C5: when no Translate* call is running, none of the project's handlers is
\* subscribed on the translator.
C5_HandlersUnsubscribed ==
    op \in {"idle", "deleted"} => AllUnsubscribed

\* C6: when the translator failed with something other than the aborted
\* signal, at the `raise` the rescue save was made exactly if stop_on_error is
\* set, and the exception raised is the translator's, also when the rescue save
\* itself failed.
C6_RescueSaveThenReraise ==
    (Translating /\ pc = "reraise" /\ call.failure = "TranslationError") =>
        /\ call.rescue = (IF call.stop THEN 1 ELSE 0)
        /\ call.exc = "TranslationError"

\* The rescue save was made and failed (no output file exists), and the
\* translator's failure is about to be re-raised.
C6_Witness ==
    /\ Translating /\ pc = "reraise" /\ call.failure = "TranslationError"
    /\ call.stop /\ call.rescue = 1 /\ ~output.exists

\* C7: after an aborted signal, up to the return to the caller, the foreground
\* thread makes no output save and no project-file write, and the exception
\* raised is the aborted signal.
C7_AbortedPropagatesWithoutSave ==
    (Translating /\ pc \in {"except", "reraise"}
        /\ call.failure = "TranslationAbortedError") =>
        /\ call.rescue = 0
        /\ output = call.snap
        /\ wpc["fg"] = "none"
        /\ call.exc = "TranslationAbortedError"

\* An abort with stop_on_error set is about to be re-raised.
C7_Witness ==
    /\ Translating /\ pc = "reraise" /\ call.failure = "TranslationAbortedError"
    /\ call.stop

\* C8 (as amended): TranslateSubtitles with the write flag set has completed
\* its priming write before it subscribes any handler and before the translator
\* runs, and then the project file exists; TranslateScene makes no priming write.
C8_TranslateSubtitlesPrimes ==
    /\ (op = "TranslateSubtitles" /\ write_project) =>
          /\ pc # "prime" => call.primed
          /\ call.subscribed => call.primed
          /\ wpc["fg"] # "none" => pc = "prime" /\ ~call.subscribed
          /\ call.primed => (projectfile # None /\ disk[projectfile].exists)
    /\ op = "TranslateScene" => (~call.primed /\ wpc["fg"] = "none")

\* A primed whole-run translation is aborted at once: the project file is there.
C8_Witness ==
    /\ op = "TranslateSubtitles" /\ pc = "reraise"
    /\ call.failure = "TranslationAbortedError"
    /\ call.primed /\ IsComplete(disk[ProjectPath])
    /\ subtitles.ver = 0

\* C8 as the claim states it: in either entry point, with the write flag set,
\* the priming write has been made when the translator runs.
C8_BothEntryPointsPrime ==
    (Translating /\ pc = "translate" /\ write_project) => call.primed

\* C9: with update mode and autosave enabled the scheduler is Running: the
\* cancellation signal and the background loop exist.
C9_AutosaveStartsWhenEnabled ==
    (update_project /\ autosave) => (stop_event # NoEvent /\ bpc # "unstarted")

\* C10: until the stop signal is set the started autosave loop is Running: a
\* failed write does not end it.
C10_AutosaveSurvivesWriteFailure ==
    stop_event = "clear" => bpc \in {"loop", "dirty", "writing", "wait"}

\* C11: for every mode string of the table, in any letter case, the freshly
\* constructed project has exactly the flags (read, write, update, load-source,
\* preview, resume, reparse, retranslate) of the table, and for every other
\* string all flags are false.
C11_ModeTable ==
    (op = "idle" /\ icall.end = "not_called" /\ option # None) =>
        LET mode == Word(lower(option.chars))
            flags == <<read_project, write_project, update_project, load_subtitles,
                       preview, resume, reparse, retranslate>>
        IN  flags =
              CASE mode = "" -> <<FALSE, FALSE, FALSE, TRUE, FALSE, FALSE, FALSE, FALSE>>
                [] mode = "true" -> <<TRUE, TRUE, TRUE, TRUE, FALSE, FALSE, FALSE, FALSE>>
                [] mode = "write" -> <<FALSE, TRUE, TRUE, TRUE, FALSE, FALSE, FALSE, FALSE>>
                [] mode = "read" -> <<TRUE, FALSE, FALSE, FALSE, FALSE, FALSE, FALSE, FALSE>>
                [] mode = "reload" -> <<FALSE, FALSE, FALSE, TRUE, FALSE, FALSE, FALSE, FALSE>>
                [] mode = "resume" -> <<TRUE, TRUE, TRUE, FALSE, FALSE, TRUE, FALSE, FALSE>>
                [] mode = "retranslate" -> <<TRUE, TRUE, TRUE, FALSE, FALSE, FALSE, FALSE, TRUE>>
                [] mode = "reparse" -> <<TRUE, TRUE, FALSE, FALSE, FALSE, FALSE, TRUE, FALSE>>
                [] mode = "preview" -> <<FALSE, TRUE, TRUE, FALSE, TRUE, FALSE, FALSE, FALSE>>
                [] OTHER -> <<FALSE, FALSE, FALSE, FALSE, FALSE, FALSE, FALSE, FALSE>>

\* C12: fresh start: when InitialiseProject, called in mode "" on a source file
\* with no project file on disk, has ended, it did not fail for want of content:
\* the source file was loaded once, read is false, load-source is true and the
\* project's content is the content loaded.
C12_FreshStart ==
    (/\ option = Str(<<>>) /\ icall.filepath = SourcePath
     /\ icall.end \notin {"not_called", "running"}
     /\ ~disk[ProjectPath].exists) =>
        /\ icall.end # "UnboundLocalError"
        /\ icall.loads = 1
        /\ ~read_project /\ load_subtitles
        /\ isinstance_SubtitleFile(subtitles) /\ icall.subtitles = subtitles

\* C13: resume: in mode "resume", once ReadProjectFile has returned the content
\* of a project file that decodes to at least one scene, the project's content
\* is that content, the source file is never loaded and load-source is false,
\* up to the end of InitialiseProject and after it.
C13_ResumeFromProjectFile ==
    (/\ project_mode = "resume" /\ icall.read = "returned_content"
     /\ ucall.end = "not_called"
     /\ LoadError(disk[ProjectPath]) = "none"
     /\ Decoded(disk[ProjectPath]).scenes = 1) =>
        /\ icall.loads = 0
        /\ ~load_subtitles
        /\ subtitles = Decoded(disk[ProjectPath])
        /\ icall.subtitles = subtitles
        /\ icall.end \in {"running", "returned", "ValueError", "io_error", "encode_error"}

\* A project given as RESUME was resumed from its project file, a backup copy
\* was written, and the source file was not loaded.
C13_Witness ==
    /\ option = Str(<<"R", "E", "S", "U", "M", "E">>)
    /\ icall.end = "returned" /\ icall.read = "returned_content"
    /\ icall.loads = 0 /\ icall.backup
    /\ subtitles = SubtitleFile(1, 1)

\* C14: when read is requested and the project file is missing, fails to decode
\* or decodes to zero scenes, ReadProjectFile (if it is called at all) does not
\* raise, and returns None unless the file decoded; InitialiseProject then
\* sets load-source and loads the content from the source file.
C14_RecoverableReadFailures ==
    (/\ icall.end # "not_called" /\ ucall.end = "not_called"
     /\ pc \notin {"exists", "read", "json_load"}
     /\ project_mode \in ReadModes \/ icall.filepath = ProjectPath
     /\ \/ LoadError(disk[ProjectPath]) # "none"
        \/ Decoded(disk[ProjectPath]).scenes = 0) =>
        /\ icall.read # "raised"
        /\ LoadError(disk[ProjectPath]) # "none" => icall.read \in {"not_called", "returned_None"}
        /\ pc \notin {"loaded", "load"} => (load_subtitles /\ icall.loads = 1)

\* C15: when InitialiseProject, called with an input path equal to the derived
\* project path, has made its path check, read and write are both true,
\* whatever the mode.
C15_ProjectPathForcesFlags ==
    (op = "InitialiseProject" /\ pc = "exists" /\ icall.filepath = projectfile) =>
        (read_project /\ write_project)

\* C16: UpdateProjectSettings with settings whose every key equals the stored
\* value makes no project-file write and leaves the content settings as they
\* were; with a key that differs and content that has scenes it has, when it
\* returns, applied the settings and made exactly one project-file write, which
\* is complete on disk.
C16_UpdateProjectSettings ==
    LET same == \A key \in DOMAIN ucall.supplied :
                    Get(ucall.supplied, key) = Get(ucall.before, key)
    IN  /\ (ucall.end # "not_called" /\ same) =>
              /\ ucall.end = "returned"
              /\ ucall.writes = 0
              /\ settings = ucall.before
              /\ wpc["fg"] = "none"
        /\ (ucall.end = "returned" /\ ~same /\ subtitles.scenes = 1) =>
              /\ ucall.writes = 1
              /\ \A key \in DOMAIN ucall.supplied : Get(settings, key) = ucall.supplied[key]
              /\ disk[projectfile].data = Encoding("fg", <<subtitles.ver, subtitles.ver>>)
        /\ (ucall.end = "returned" /\ ~same /\ subtitles.scenes = 0) => ucall.writes = 0

\* One stored setting was replaced and the project file written once.
C16_Witness ==
    /\ ucall.end = "returned" /\ ucall.writes = 1
    /\ Get(ucall.before, "movie_name") = "a" /\ Get(settings, "movie_name") = "b"
    /\ Get(ucall.before, "target_language") = Get(settings, "target_language")
    /\ disk[ProjectPath].data = Encoding("fg", <<subtitles.ver, subtitles.ver>>)

\* C17: in mode "reparse" write is true and update is false, an explicit
\* WriteProjectFile on content with scenes is not refused, and whenever update
\* is false the dirty flag is false and the autosave loop makes no checkpoint.
C17_ReparseNeverDirty ==
    /\ project_mode = "reparse" =>
          /\ write_project /\ ~update_project
          /\ (op = "WriteProjectFile" /\ wpc["fg"] = "ret_exc"
                /\ isinstance_SubtitleFile(subtitles) /\ subtitles.scenes = 1) =>
                wres["fg"] \in {"no_path", "io_error", "encode_error"}
    /\ ~update_project => (~needsupdate /\ bpc \notin {"dirty", "writing"})

\* In mode "reparse", with the autosave loop running and a batch translated,
\* an explicit WriteProjectFile has written the project file.
C17_Witness ==
    /\ project_mode = "reparse" /\ bpc \in {"loop", "wait"}
    /\ op = "WriteProjectFile" /\ wpc["fg"] = "ret_ok"
    /\ subtitles.ver = 1
    /\ disk[ProjectPath].data = Encoding("fg", <<1, 1>>)

\* C18: when the autosave loop's checkpoint write finishes, a dirty flag that an
\* event set while the write was in flight, for a mutation the checkpoint does
\* not contain, is still set.
C18_DirtyDuringWriteSurvives ==
    [][(/\ bpc = "writing" /\ wpc["bg"] = "clear" /\ wpc'["bg"] = "ret_ok"
        /\ update_project /\ needsupdate
        /\ isinstance_SubtitleFile(subtitles)
        /\ disk[wpath["bg"]].data[2].ver < subtitles.ver)
       => needsupdate']_vars

\* C19: in every state the update flag equals (write and mode is not "reparse").
C19_UpdateFollowsWrite ==
    update_project = (write_project /\ project_mode # "reparse")

\* C20: after InitialiseProject in mode "read" has written the backup copy, the
\* flags and the project path are what they were before the backup, write is
\* false and TranslateSubtitles would make no priming write.
C20_BackupChangesNoFlags ==
    (/\ project_mode = "read" /\ icall.write_backup /\ icall.backup
     /\ icall.end = "returned" /\ ucall.end = "not_called") =>
        /\ read_project = icall.before.read
        /\ write_project = icall.before.write
        /\ update_project = icall.before.update
        /\ projectfile = icall.before.projectfile
        /\ ~write_project
        /\ ~PrimesProjectFile("TranslateSubtitles")

\* C21: the lock never deadlocks the run.  A thread holds the lock only inside
\* a `with self.lock:` block of its own, so it holds it at no point where it
\* takes the lock (no second acquisition by the holder) and at no point after
\* a block was left, by return or by exception; and every thread waiting for
\* the lock eventually gets it.
C21_LockNeverDeadlocks ==
    /\ [](/\ lock = "fg" =>
                (InWriteSection("fg") \/ (op = "InitialiseProject" /\ pc = "json_load"))
          /\ lock = "bg" => InWriteSection("bg")
          /\ \A t \in Threads : Waiting(t) => lock # t)
    /\ \A t \in Threads : Waiting(t) ~> ~Waiting(t)

\* After a decode failure in ReadProjectFile, the autosave thread waits for the
\* lock while UpdateProjectSettings' write holds it.
C21_Witness ==
    /\ icall.read = "returned_None"
    /\ Waiting("bg") /\ lock = "fg"
    /\ op = "UpdateProjectSettings" /\ wpc["fg"] = "write"

====
